---- MODULE Spec2Model ----
(***************************************************************************)
(* Model of the DCI-Palestine harvesting pipeline (src/docs/index.md, the  *)
(* script that follows the README text in that file): fetchHTML, getDate,  *)
(* getDciLinksFromLanding, hash, keywords, getAndStoreArticlesFromLinks    *)
(* and getArticlesRecursively, with the files they read and write.         *)
(*                                                                         *)
(* A string is worked on as the sequence of its characters (Chars), so     *)
(* that toLowerCase, includes, charCodeAt and the regular expressions are  *)
(* computed and not assumed.  A date field is a sequence of tokens: every  *)
(* whitespace                                                              *)
(* character, every ',' and every '-' is a token of its own; a maximal run *)
(* of other characters (a word) is one token.  The regular expressions of  *)
(* getDate only distinguish whitespace, line terminators and '-', so they  *)
(* act on tokens exactly as on characters.                                 *)
(***************************************************************************)
EXTENDS Integers, Sequences, FiniteSets, TLC

VARIABLES
    done,         \* module-level flag `let done = false`
    pc,           \* position of getArticlesRecursively
    page,         \* parameter page
    stop,         \* parameter stop
    acc,          \* parameter acc
    html,         \* local html of the current call
    links,        \* linksForPage
    idx,          \* position of the reduce in getAndStoreArticlesFromLinks
    articles,     \* _acc of the reduce / articlesForPage
    returned,     \* value the outermost call resolved to (read when pc = "done")
    sourceFile,   \* ./sources/<domain>/<article>?page=<n>.html
    pageFile,     \* ./sources/<domain>/page_<n>.json
    allJson,      \* ./sources/<domain>/all.json: <<>> while absent, else <<content>>
    metaFile,     \* <year>/<month>/<hash>.json
    htmlFile,     \* <year>/<month>/<hash>.html
    loaded,       \* history: listing pages loaded in this run, in order
    detailFetches,\* history: fetchHTML(link) calls made in this run
    extractorCalls, \* history: callClosedAi calls made in this run
    resumed,      \* history: this is the second run, started on the first run's files
    firstRun,     \* history: <<what the first run returned and left in all.json>>
    fault,        \* history: <<>>, or <<the write that the disk refused>>
    tasks,        \* getArticles of src/sites: position and data of each callback of the map
    arg,          \* input of the pure function under check
    out           \* its result: <<>> before the call, then <<result>>

vars == <<done, pc, page, stop, acc, html, links, idx, articles, returned,
          sourceFile, pageFile, allJson, metaFile, htmlFile, loaded,
          detailFetches, extractorCalls, resumed, firstRun, fault, tasks, arg, out>>

runVars == <<done, pc, page, stop, acc, html, links, idx, articles, returned,
             sourceFile, pageFile, allJson, metaFile, htmlFile, loaded,
             detailFetches, extractorCalls, resumed, firstRun, fault, tasks>>

\* Values of different kinds are never compared: what may be absent is a
\* sequence of length 0 or 1, and every page text is a sequence.
Null == <<"null">>     \* JavaScript null
Empty == <<>>          \* the empty string '' (falsy); also html before it is set

(***************************************************************************)
(* Bounds of the model.                                                    *)
(***************************************************************************)
MaxStop == 2        \* largest page limit `stop` tried
MaxPageLen == 2     \* most summaries on one listing page of a run
MaxHashLen == 6     \* longest string given to hash on its own
MaxDateLen == 6     \* longest date field (in tokens) given to getDate on its own
MaxFilterLen == 4   \* most summaries on a page given to getDciLinksFromLanding on its own

(***************************************************************************)
(* Characters.                                                             *)
(***************************************************************************)
Upper == <<"A","B","C","D","E","F","G","H","I","J","K","L","M",
           "N","O","P","Q","R","S","T","U","V","W","X","Y","Z">>
Lower == <<"a","b","c","d","e","f","g","h","i","j","k","l","m",
           "n","o","p","q","r","s","t","u","v","w","x","y","z">>

\* "U+FFFF" stands for the one UTF-16 code unit 0xFFFF, the largest charCodeAt value.
Characters == {Upper[k] : k \in 1..26} \cup {Lower[k] : k \in 1..26} \cup {" ", "U+FFFF"}

CodeUnit ==
    [c \in Characters |->
        IF \E k \in 1..26 : Upper[k] = c
        THEN 64 + (CHOOSE k \in 1..26 : Upper[k] = c)
        ELSE IF \E k \in 1..26 : Lower[k] = c
        THEN 96 + (CHOOSE k \in 1..26 : Lower[k] = c)
        ELSE IF c = " " THEN 32
        ELSE 65535]

charCodeAt(c) == CodeUnit[c]

LowerCaseOf ==
    [c \in Characters |->
        IF \E k \in 1..26 : Upper[k] = c
        THEN Lower[CHOOSE k \in 1..26 : Upper[k] = c]
        ELSE c]

toLowerCaseChar(c) == LowerCaseOf[c]

toLowerCase(s) == [k \in 1..Len(s) |-> toLowerCaseChar(s[k])]

\* String.prototype.includes: word occurs in s as a contiguous substring.
includes(s, word) ==
    \E k \in 0..(Len(s) - Len(word)) :
        \A j \in 1..Len(word) : s[k + j] = word[j]

(***************************************************************************)
(* hash: (hash << 5) - hash + char, then hash & hash.  A 32-bit integer is *)
(* kept as two 16-bit halves while it is computed, since the intermediate  *)
(* values (up to about 2^37 in the source's double arithmetic, which is    *)
(* exact there) exceed what TLC can hold in one integer.                   *)
(***************************************************************************)
Hi16(h) == (h \div 65536) % 65536
Lo16(h) == h % 65536

\* ToInt32 of the value hi * 2^16 + lo, with hi and lo in 0..65535.
Int32(hi, lo) ==
    IF hi >= 32768 THEN (hi - 65536) * 65536 + lo ELSE hi * 65536 + lo

\* hash << 5
ShiftLeft5(h) ==
    LET l == Lo16(h) * 32
    IN  Int32((Hi16(h) * 32 + (l \div 65536)) % 65536, l % 65536)

\* the mutated loop body: hash << 4 in place of hash << 5
ShiftLeft4(h) ==
    LET l == Lo16(h) * 16
    IN  Int32((Hi16(h) * 16 + (l \div 65536)) % 65536, l % 65536)

HashStepShift4(h, char) ==
    LET s == ShiftLeft4(h)
        l == Lo16(s) - Lo16(h) + char
    IN  Int32((Hi16(s) - Hi16(h) + (l \div 65536)) % 65536, l % 65536)

\* one iteration: hash = (hash << 5) - hash + char; hash = hash & hash
HashStep(h, char) ==
    LET s == ShiftLeft5(h)
        l == Lo16(s) - Lo16(h) + char
    IN  Int32((Hi16(s) - Hi16(h) + (l \div 65536)) % 65536, l % 65536)

\* the loop of lines 121-125 from index i on (the test h = h only makes TLC
\* compute h before the next iteration)
RECURSIVE HashFrom(_, _, _)
HashFrom(str, i, h) ==
    IF i > Len(str) \/ h # h THEN h
    ELSE HashFrom(str, i + 1, HashStep(h, charCodeAt(str[i])))

hash(str) == HashFrom(str, 1, 0)

(***************************************************************************)
(* keywords and the test of line 307.                                      *)
(***************************************************************************)
keywords ==
    {  <<"s", "h", "o", "o", "t">>,
       <<"s", "h", "o", "t">>,
       <<"k", "i", "l", "l">>,
       <<"m", "u", "r", "d", "e", "r">>,
       <<"m", "a", "r", "t", "y", "r">>,
       <<"f", "i", "r", "e">>,
       <<"w", "e", "a", "p", "o", "n">>,
       <<"d", "e", "a", "d">>,
       <<"d", "i", "e", "d">>,
       <<"d", "e", "a", "t", "h">>,
       <<"i", "n", "j", "u", "r">>,
       <<"w", "o", "u", "n", "d">>,
       <<"h", "u", "r", "t">>,
       <<"c", "a", "s", "u", "a", "l", "t">>,
       <<"f", "a", "t", "a", "l">>,
       <<"b", "o", "m", "b">>,
       <<"e", "x", "p", "l", "o">>,
       <<"s", "t", "r", "i", "k", "e">>,
       <<"a", "t", "t", "a", "c", "k">>,
       <<"v", "i", "o", "l">>  }

\* the characters of the headlines the listing pages of the model carry
Chars(str) ==
    CASE str = "Boy killed in strike" ->
           <<"B", "o", "y", " ", "k", "i", "l", "l", "e", "d", " ", "i", "n", " ",
             "s", "t", "r", "i", "k", "e">>
      [] str = "Council meeting schedule" ->
           <<"C", "o", "u", "n", "c", "i", "l", " ", "m", "e", "e", "t", "i", "n",
             "g", " ", "s", "c", "h", "e", "d", "u", "l", "e">>
      [] str = "AIRSTRIKE Wounds Girl" ->
           <<"A", "I", "R", "S", "T", "R", "I", "K", "E", " ", "W", "o", "u", "n",
             "d", "s", " ", "G", "i", "r", "l">>
      [] str = "Boy shot dead" ->
           <<"B", "o", "y", " ", "s", "h", "o", "t", " ", "d", "e", "a", "d">>
      [] str = "Camp raid" ->
           <<"C", "a", "m", "p", " ", "r", "a", "i", "d">>

\* the mutated test: the headline is not lower-cased
HasKeywordCaseSensitive(headline) ==
    LET text == Chars(headline)
    IN  \E word \in keywords : includes(text, word)

\* words.some((word) => headline.toLowerCase().includes(word)): false for
\* an empty array
SomeKeyword(words, headline) ==
    LET text == toLowerCase(Chars(headline))
    IN  \E word \in words : includes(text, word)

\* keywords.some((word) => headline.toLowerCase().includes(word))
HasKeyword(headline) == SomeKeyword(keywords, headline)

(***************************************************************************)
(* getDate (lines 69-77) on a token sequence.                              *)
(***************************************************************************)
IsSpace(t) == t \in {" ", "\n", "\t"}          \* \s
IsLineTerminator(t) == t = "\n"                \* what '.' does not match

\* last index of the whitespace run that starts at i
RECURSIVE RunEnd(_, _)
RunEnd(s, i) ==
    IF i < Len(s) /\ IsSpace(s[i + 1]) THEN RunEnd(s, i + 1) ELSE i

\* dateString.replace(/\s{2,}/g, ''): every maximal run of two or more
\* whitespace characters is deleted; a single whitespace character stays.
RECURSIVE RemoveSpaceRunsFrom(_, _)
RemoveSpaceRunsFrom(s, i) ==
    IF i > Len(s) THEN <<>>
    ELSE IF IsSpace(s[i]) /\ RunEnd(s, i) > i
         THEN RemoveSpaceRunsFrom(s, RunEnd(s, i) + 1)
         ELSE <<s[i]>> \o RemoveSpaceRunsFrom(s, i + 1)

RemoveSpaceRuns(s) == RemoveSpaceRunsFrom(s, 1)

\* /.*(?=-)/ can match s[a..e-1] when s[e] is '-' and no line terminator
\* lies in s[a..e-1].
DotStarBefore(s, a, e) ==
    /\ s[e] = "-"
    /\ \A k \in a..(e - 1) : ~IsLineTerminator(s[k])

\* dateRx.exec(clean): the leftmost start that matches at all, and from it
\* the longest match (.* is greedy).  matched = FALSE is the null result.
FirstLineExec(s) ==
    LET starts == {a \in 1..Len(s) : \E e \in a..Len(s) : DotStarBefore(s, a, e)}
    IN  IF starts = {} THEN [matched |-> FALSE, text |-> <<>>]
        ELSE LET a == CHOOSE x \in starts : \A y \in starts : x <= y
                 ends == {e \in a..Len(s) : DotStarBefore(s, a, e)}
                 e == CHOOSE x \in ends : \A y \in ends : x >= y
             IN  [matched |-> TRUE, text |-> SubSeq(s, a, e - 1)]

RECURSIVE TrimStart(_)
TrimStart(s) ==
    IF s # <<>> /\ IsSpace(Head(s)) THEN TrimStart(Tail(s)) ELSE s

RECURSIVE TrimEnd(_)
TrimEnd(s) ==
    IF s # <<>> /\ IsSpace(s[Len(s)]) THEN TrimEnd(SubSeq(s, 1, Len(s) - 1)) ELSE s

trim(s) == TrimEnd(TrimStart(s))

getDate(dateString) ==
    LET clean == RemoveSpaceRuns(dateString)
        dateMatch == FirstLineExec(clean)
    IN  IF dateMatch.matched THEN trim(dateMatch.text) ELSE <<>>

(***************************************************************************)
(* new Date(text), getTime, getFullYear, toLocaleString month.  The date   *)
(* parser accepts "<month name> <day>, <year>" with any whitespace and an  *)
(* optional comma; every other text is an Invalid Date (time NaN).         *)
(***************************************************************************)
months == <<"January", "February", "March", "April", "May", "June", "July",
            "August", "September", "October", "November", "December">>

IsNumeral(t) == t \in {"1", "2", "3", "5", "20", "2023", "2024"}

ToNumber(t) ==
    CASE t = "1" -> 1 [] t = "2" -> 2 [] t = "3" -> 3 [] t = "5" -> 5
      [] t = "20" -> 20 [] t = "2023" -> 2023 [] t = "2024" -> 2024

NewDate(text) ==
    LET w == SelectSeq(text, LAMBDA t : ~IsSpace(t) /\ t # ",")
    IN  IF /\ Len(w) = 3
           /\ \E m \in 1..12 : months[m] = w[1]
           /\ IsNumeral(w[2])
           /\ IsNumeral(w[3])
        THEN [valid |-> TRUE,
              year  |-> ToNumber(w[3]),
              month |-> CHOOSE m \in 1..12 : months[m] = w[1],
              day   |-> ToNumber(w[2])]
        ELSE [valid |-> FALSE, year |-> 0, month |-> 0, day |-> 0]

\* getTime() of a valid date: midnight local time, which grows with the calendar date.
getTime(d) == (d.year * 12 + d.month) * 31 + d.day

\* new Date('October 1, 2023')
CutoffText == <<"October", " ", "1", ",", " ", "2023">>

\* the mutated comparison: >= in place of >
RelevantInclusive(dateObj) ==
    dateObj.valid /\ getTime(dateObj) >= getTime(NewDate(CutoffText))

\* dateObj.getTime() > new Date('October 1, 2023').getTime(); NaN > x is false
Relevant(dateObj) ==
    dateObj.valid /\ getTime(dateObj) > getTime(NewDate(CutoffText))

(***************************************************************************)
(* getDciLinksFromLanding (lines 81-114).  A listing page is the sequence  *)
(* of its '.featured' elements (see Featured below).                       *)
(***************************************************************************)
\* A '.featured' element: the text of its h3, the date its date span shows
\* and the href of its first anchor.
Featured(headline, month, day, year, href) ==
    [headline |-> headline, dateSpan |-> <<month, day, year>>, href |-> href]

\* a <span class="date"> that holds nothing but whitespace
BlankDate == <<"blank">>

\* what the optional chains of lines 93-96 give for an entry without h3,
\* without date element, without anchor: undefined
Missing == "undefined"
NoDate == <<>>

\* text of the first child of <span class="date">, laid out as on the site
\* (cf. example_div and testSpan): "\n  <Month> <day>, <year> \n  - Location:\n "
DateSpanText(span) ==
    IF span = BlankDate THEN <<"\n", " ", " ">>
    ELSE <<"\n", " ", " ", span[1], " ", span[2], ",", " ", span[3], " ", "\n", " ", " ",
           "-", " ", "Location:", "\n", " ">>

Summaries ==
    { Featured("Boy killed in strike", "January", "20", "2024", "/a"),
      Featured("Boy killed in strike", "January", "5", "2024", "/a2"),
      Featured("Boy killed in strike", "December", "20", "2023", "/a3"),
      Featured("Council meeting schedule", "January", "3", "2024", "/b"),
      Featured("AIRSTRIKE Wounds Girl", "January", "2", "2024", "/e"),
      Featured("Boy shot dead", "September", "20", "2023", "/c"),
      Featured("Camp raid", "October", "1", "2023", "/d") }

\* one summary for each date of interest around the cutoff
FilterSummaries ==
    { Featured("Boy killed in strike", "January", "5", "2024", "/f1"),
      Featured("Council meeting schedule", "January", "3", "2024", "/f2"),
      Featured("AIRSTRIKE Wounds Girl", "October", "2", "2023", "/f3"),
      Featured("Camp raid", "October", "1", "2023", "/f4"),
      Featured("Boy shot dead", "September", "20", "2023", "/f5"),
      Featured("Council meeting schedule", "August", "1", "2023", "/f6") }

\* getDate of the date fields of the model, computed once
DateSpans == {s.dateSpan : s \in Summaries \cup FilterSummaries} \cup {BlankDate}
dateOf == [span \in DateSpans |-> getDate(DateSpanText(span))]

apex == "https://www.dci-palestine.org"

LinkOf(href) == <<apex, href>>                  \* apex + href

RECURSIVE LandingReduce(_, _, _, _)
LandingReduce(entries, i, accLinks, d) ==
    IF i > Len(entries) THEN [articleLinks |-> accLinks, done |-> d, threw |-> FALSE]
    ELSE IF entries[i].dateSpan = NoDate
    THEN \* getDate(undefined): dateString.replace throws a TypeError
         [articleLinks |-> accLinks, done |-> d, threw |-> TRUE]
    ELSE LET article == entries[i]
             date == dateOf[article.dateSpan]     \* getDate(dateDirty)
             dateObj == NewDate(date)
         IN  IF Relevant(dateObj)
             THEN LandingReduce(entries, i + 1,
                      Append(accLinks, [link |-> LinkOf(article.href),
                                        headline |-> article.headline,
                                        date |-> date]), d)
             ELSE LandingReduce(entries, i + 1, accLinks, TRUE)

\* the links returned, or that the call threw, and the value of the flag
\* `done` afterwards
getDciLinksFromLanding(entries, d) == LandingReduce(entries, 1, <<>>, d)

(***************************************************************************)
(* The source the run reads.  The site does not change during the runs: a  *)
(* listing page, once obtained, is kept in sourceFile and read from there. *)
(***************************************************************************)
SeqsUpTo(S, n) == UNION {[1..k -> S] : k \in 0..n}

\* a listing page that was obtained: truthy html with its '.featured' elements
ListingPages == {<<"listing", e>> : e \in SeqsUpTo(Summaries, MaxPageLen)}
Entries(listing) == listing[2]

\* the detail page behind a link, and what the extractor returns for its text
DetailPage(link) == <<"html", link>>
Victims(link) == <<"victims", link>>

(***************************************************************************)
(* fetchHTML (lines 34-54).  direct is what fetch(url) and res.text() do,  *)
(* fallback what scrapePage(url) does; content is what the URL serves.     *)
(* The removal of style and script blocks and of blank lines is not        *)
(* represented: content stands for the page after it.                      *)
(***************************************************************************)
DirectOutcomes == {"body", "emptyBody", "throws"}
FallbackOutcomes == {"content", "throws"}

fetchHTML(content, direct, fallback) ==
    IF direct = "throws" THEN Empty
    ELSE IF direct = "body" THEN content
    ELSE IF fallback = "content" THEN content
    ELSE Empty

(***************************************************************************)
(* callClosedAi (lines 201-260) and getPageAndConvertToData (295-299).     *)
(***************************************************************************)
ExtractionOutcomes == {"results", "remoteError", "notOk", "malformed"}

\* the response, or undefined when the request fails, the status is not OK
\* or the reply cannot be taken apart (all caught at line 257)
callClosedAi(link, outcome) ==
    IF outcome = "results"
    THEN [undefined |-> FALSE, name |-> "get_victims", arguments |-> Victims(link)]
    ELSE [undefined |-> TRUE, name |-> "", arguments |-> Null]

\* htmlToText throws on a page without '.content-box' (clean(undefined)),
\* which the empty page is; otherwise the response of callClosedAi
getPageAndConvertToData(pageHtml, link, outcome) ==
    IF pageHtml = Empty THEN [threw |-> TRUE, value |-> callClosedAi(link, "notOk")]
    ELSE [threw |-> FALSE, value |-> callClosedAi(link, outcome)]

\* the mutated line 334: no `|| { arguments: null, name: null }`
DataNoDefault(r) ==
    IF r.threw THEN [undefined |-> FALSE, name |-> "", arguments |-> Null] ELSE r.value

\* lines 317, 333-340: data keeps its initial value when the call throws,
\* and takes the default when the call returns undefined
DataOrDefault(r) ==
    IF r.threw \/ r.value.undefined
    THEN [undefined |-> FALSE, name |-> "", arguments |-> Null]
    ELSE r.value

(***************************************************************************)
(* getAndStoreArticlesFromLinks (lines 302-360): one turn of the reduce.   *)
(***************************************************************************)
\* hash(headline) and the keyword test for the headlines of the model,
\* computed once
Headlines == {s.headline : s \in Summaries}
hashed == [headline \in Headlines |-> hash(Chars(headline))]
hasKeyword == [headline \in Headlines |-> HasKeyword(headline)]

\* `${dir}/${hashed}`: year, month name and hash of the headline
CacheKey(payload) ==
    LET _date == NewDate(payload.date)
    IN  <<_date.year, months[_date.month], hashed[payload.headline]>>

\* the mutated test of line 325: any record is a hit, whatever its victims
CacheHitOnExistence(payload) == CacheKey(payload) \in DOMAIN metaFile

\* the mutated lines 321-329: the meta file is never taken for a hit
CacheNeverHit(payload) == FALSE

\* line 321-329: the meta file is read and holds truthy victims
CacheHit(payload) ==
    /\ CacheKey(payload) \in DOMAIN metaFile
    /\ metaFile[CacheKey(payload)].victims # Null

Article(payload, key, victims) ==
    [headline |-> payload.headline, date |-> payload.date, link |-> payload.link,
     htmlFile |-> key, victims |-> victims]

\* the mutated lines 327 and 350: the entry is put in front
concatInFront(_acc, entry) == <<entry>> \o _acc

\* lines 327 and 350: _acc.concat({ headline, date, link, htmlFile, victims })
concat(_acc, entry) == Append(_acc, entry)

ProcessArticle ==
    /\ pc = "processing"
    /\ idx <= Len(links)
    /\ LET payload == links[idx]
           key == CacheKey(payload)
       IN  IF payload.headline = Missing
           THEN \* headline.toLowerCase() throws a TypeError
                /\ pc' = "failed"
                /\ UNCHANGED <<articles, metaFile, htmlFile, detailFetches, extractorCalls>>
           ELSE IF ~hasKeyword[payload.headline]
           THEN UNCHANGED <<articles, metaFile, htmlFile, detailFetches, extractorCalls, pc>>
           ELSE IF CacheHit(payload)
           THEN /\ articles' = concat(articles,
                                      Article(payload, key, metaFile[key].victims))
                /\ UNCHANGED <<metaFile, htmlFile, detailFetches, extractorCalls, pc>>
           ELSE \E direct \in DirectOutcomes, fallback \in FallbackOutcomes,
                   outcome \in ExtractionOutcomes :
                  LET pageHtml == fetchHTML(DetailPage(payload.link), direct, fallback)
                      data == DataOrDefault(
                                  getPageAndConvertToData(pageHtml, payload.link, outcome))
                  IN  /\ detailFetches' = detailFetches + 1
                      /\ extractorCalls' = IF pageHtml = Empty THEN extractorCalls
                                                           ELSE extractorCalls + 1
                      /\ IF data.undefined
                         THEN \* data['arguments'] throws: the run is rejected
                              /\ pc' = "failed"
                              /\ UNCHANGED <<articles, metaFile, htmlFile>>
                         ELSE /\ htmlFile' = (key :> pageHtml) @@ htmlFile
                              /\ metaFile' = (key :> Article(payload, key, data.arguments))
                                                 @@ metaFile
                              /\ articles' = concat(articles,
                                                 Article(payload, key, data.arguments))
                              /\ pc' = pc
    /\ idx' = idx + 1
    /\ UNCHANGED <<done, page, stop, acc, html, links, returned, sourceFile, pageFile,
                   allJson, loaded, resumed, firstRun, arg, out, fault, tasks>>

(***************************************************************************)
(* getArticlesRecursively (lines 374-420).  The recursive call is the last *)
(* thing a call does and its result is returned unchanged, so the chain of *)
(* calls is one loop over <<page, acc>>.                                   *)
(***************************************************************************)
\* the mutated guard: the flag is not consulted
ContinueIgnoringDone(d, p, s) == p <= s

\* the mutated guard: one page more than the limit
ContinueOffByOne(d, p, s) == ~d /\ p <= s + 1

\* line 378: !done && page <= stop
Continue(d, p, s) == ~d /\ p <= s

\* lines 378-381 and 416-419: go on to the page after the delay, or write
\* all.json and return acc
Enter ==
    /\ pc = "enter"
    /\ IF Continue(done, page, stop)
       THEN /\ pc' = "loading"
            /\ UNCHANGED <<allJson, returned>>
       ELSE /\ allJson' = <<acc>>
            /\ returned' = acc
            /\ pc' = "done"
    /\ UNCHANGED <<done, page, stop, acc, html, links, idx, articles, sourceFile,
                   pageFile, metaFile, htmlFile, loaded, detailFetches, extractorCalls, resumed,
                   firstRun, arg, out, fault, tasks>>

\* the mutated else-branch of line 394: an empty page is skipped and the
\* crawl goes on with the next page
LoadPageSkippingEmpty ==
    /\ pc = "loading"
    /\ IF page \in DOMAIN sourceFile
       THEN html' = sourceFile[page]
       ELSE \E content \in ListingPages, direct \in DirectOutcomes,
               fallback \in FallbackOutcomes :
                html' = fetchHTML(content, direct, fallback)
    /\ loaded' = Append(loaded, page)
    /\ IF html' # Empty
       THEN pc' = "filtering" /\ page' = page
       ELSE pc' = "enter" /\ page' = page + 1
    /\ UNCHANGED <<done, stop, acc, links, idx, articles, sourceFile, pageFile,
                   allJson, metaFile, htmlFile, detailFetches, extractorCalls, resumed, firstRun,
                   arg, out, returned, fault, tasks>>

\* lines 382-394 and 413-415: the listing page is read from its file or,
\* failing that, fetched; empty html ends the run with acc
LoadPage ==
    /\ pc = "loading"
    /\ IF page \in DOMAIN sourceFile
       THEN html' = sourceFile[page]
       ELSE \E content \in ListingPages, direct \in DirectOutcomes,
               fallback \in FallbackOutcomes :
                html' = fetchHTML(content, direct, fallback)
    /\ loaded' = Append(loaded, page)
    /\ IF html' # Empty
       THEN pc' = "filtering" /\ returned' = returned
       ELSE pc' = "done" /\ returned' = acc
    /\ UNCHANGED <<done, page, stop, acc, links, idx, articles, sourceFile, pageFile,
                   allJson, metaFile, htmlFile, detailFetches, extractorCalls, resumed, firstRun,
                   arg, out, fault, tasks>>

\* line 395: linksForPage = await getDciLinksFromLanding(html)
Filter ==
    /\ pc = "filtering"
    /\ done' = getDciLinksFromLanding(Entries(html), done).done
    /\ IF getDciLinksFromLanding(Entries(html), done).threw
       THEN /\ pc' = "failed"
            /\ UNCHANGED <<links, idx, articles>>
       ELSE /\ links' = getDciLinksFromLanding(Entries(html), done).articleLinks
            /\ idx' = 1
            /\ articles' = <<>>
            /\ pc' = "processing"
    /\ UNCHANGED <<page, stop, acc, html, returned, sourceFile, pageFile, allJson,
                   metaFile, htmlFile, loaded, detailFetches, extractorCalls, resumed, firstRun,
                   arg, out, fault, tasks>>

\* the mutated line 397: the reduce is not awaited to its end
ReduceLeftRunning(i, ls) == i >= Len(ls)

\* line 397: `await getAndStoreArticlesFromLinks(linksForPage)` has resolved,
\* which it does when the reduce has taken every link
ReduceResolved(i, ls) == i > Len(ls)

\* the mutated line 409: the accumulator is replaced by the page result
accOfPageOnly(_acc, articlesForPage) == articlesForPage

\* line 409: acc.concat(articlesForPage)
accConcat(_acc, articlesForPage) == _acc \o articlesForPage

\* lines 401-412: page_<n>.json and the listing file are written, and the
\* next call gets page + 1 and acc.concat(articlesForPage)
Persist ==
    /\ pc = "processing"
    /\ ReduceResolved(idx, links)
    /\ pageFile' = (page :> articles) @@ pageFile
    /\ sourceFile' = (page :> html) @@ sourceFile
    /\ page' = page + 1
    /\ acc' = accConcat(acc, articles)
    /\ pc' = "enter"
    /\ UNCHANGED <<done, stop, html, links, idx, articles, returned, allJson,
                   metaFile, htmlFile, loaded, detailFetches, extractorCalls, resumed, firstRun,
                   arg, out, fault, tasks>>

\* line 422 in a new process, on the files the first run left: the pipeline
\* is run again from page 1 with the same page limit
Resume ==
    /\ pc = "done"
    /\ ~resumed
    /\ resumed' = TRUE
    /\ firstRun' = <<[returned |-> returned, allJson |-> allJson]>>
    /\ done' = FALSE
    /\ page' = 1
    /\ acc' = <<>>
    /\ html' = Empty
    /\ links' = <<>>
    /\ idx' = 1
    /\ articles' = <<>>
    /\ returned' = <<>>
    /\ loaded' = <<>>
    /\ detailFetches' = 0
    /\ extractorCalls' = 0
    /\ pc' = "enter"
    /\ UNCHANGED <<stop, sourceFile, pageFile, allJson, metaFile, htmlFile, arg, out, fault, tasks>>

RunInit ==
    /\ done = FALSE
    /\ pc = "enter"
    /\ page = 1
    /\ stop \in 0..MaxStop
    /\ acc = <<>>
    /\ html = Empty
    /\ links = <<>>
    /\ idx = 1
    /\ articles = <<>>
    /\ returned = <<>>
    /\ sourceFile = <<>>
    /\ pageFile = <<>>
    /\ allJson = <<>>
    /\ metaFile = <<>>
    /\ htmlFile = <<>>
    /\ loaded = <<>>
    /\ detailFetches = 0
    /\ extractorCalls = 0
    /\ resumed = FALSE
    /\ firstRun = <<>>
    /\ fault = <<>>
    /\ tasks = <<>>

Init == RunInit /\ arg = <<>> /\ out = <<>>

RunStep == Enter \/ LoadPage \/ Filter \/ ProcessArticle \/ Persist

Next == RunStep \/ Resume

Spec == Init /\ [][Next]_vars

\* One run of the script.  Every awaited operation (the delay, a read, a
\* fetch, the extraction call, a write) completes, so a run that can take
\* a step takes it.
FairRun == Init /\ [][RunStep]_vars /\ WF_vars(RunStep)

(***************************************************************************)
(* The pure functions on their own: the input is drawn from a bounded set  *)
(* and one call is made.                                                   *)
(***************************************************************************)
RunIdle ==
    /\ done = FALSE
    /\ pc = "idle"
    /\ page = 1
    /\ stop = 0
    /\ acc = <<>>
    /\ html = Empty
    /\ links = <<>>
    /\ idx = 1
    /\ articles = <<>>
    /\ returned = <<>>
    /\ sourceFile = <<>>
    /\ pageFile = <<>>
    /\ allJson = <<>>
    /\ metaFile = <<>>
    /\ htmlFile = <<>>
    /\ loaded = <<>>
    /\ detailFetches = 0
    /\ extractorCalls = 0
    /\ resumed = FALSE
    /\ firstRun = <<>>
    /\ fault = <<>>
    /\ tasks = <<>>

HashAlphabet == {"a", "Z", " ", "U+FFFF"}

InitHash ==
    /\ RunIdle
    /\ arg \in SeqsUpTo(HashAlphabet, MaxHashLen)
    /\ out = <<>>

CallHash ==
    /\ out = <<>>
    /\ out' = <<hash(arg)>>
    /\ UNCHANGED <<runVars, arg>>

SpecHash == InitHash /\ [][CallHash]_vars

DateAlphabet == {"January", "20", " ", "\n", "-"}

\* the date field of example_div as far as its first anchor, and the field
\* of the example "January 20, 2024 \n - Location: West Bank"
DateExamples ==
    { DateSpanText(<<"January", "20", "2024">>),
      <<"January", " ", "20", ",", " ", "2024", " ", "\n", " ", "-", " ",
        "Location:", " ", "West", " ", "Bank">> }

InitDate ==
    /\ RunIdle
    /\ arg \in SeqsUpTo(DateAlphabet, MaxDateLen) \cup DateExamples
    /\ out = <<>>

CallGetDate ==
    /\ out = <<>>
    /\ out' = <<getDate(arg)>>
    /\ UNCHANGED <<runVars, arg>>

SpecDate == InitDate /\ [][CallGetDate]_vars

InitFilter ==
    /\ RunIdle
    /\ arg = <<>>
    /\ out = <<>>

LandingCall ==
    /\ pc = "idle"
    /\ \E e \in SeqsUpTo(FilterSummaries, MaxFilterLen) : html' = <<"listing", e>>
    /\ pc' = "filtering"
    /\ UNCHANGED <<done, page, stop, acc, links, idx, articles, returned, sourceFile,
                   pageFile, allJson, metaFile, htmlFile, loaded, detailFetches, extractorCalls,
                   resumed, firstRun, arg, out, fault, tasks>>

SpecFilter == InitFilter /\ [][LandingCall \/ Filter]_vars

(***************************************************************************)
(* What the claims speak of, stated without the functions under check.     *)
(***************************************************************************)
MonthNumber(name) == CHOOSE m \in 1..12 : months[m] = name

\* the date a summary shows is later than October 1, 2023
AfterCutoff(span) ==
    LET y == ToNumber(span[3])
        m == MonthNumber(span[1])
        d == ToNumber(span[2])
    IN  y > 2023 \/ (y = 2023 /\ (m > 10 \/ (m = 10 /\ d > 1)))

\* a is not earlier than b
NotEarlier(a, b) ==
    LET ya == ToNumber(a[3])
        yb == ToNumber(b[3])
        ma == MonthNumber(a[1])
        mb == MonthNumber(b[1])
    IN  \/ ya > yb
        \/ ya = yb /\ ma > mb
        \/ ya = yb /\ ma = mb /\ ToNumber(a[2]) >= ToNumber(b[2])

DateDescending(entries) ==
    \A i, j \in 1..Len(entries) :
        i < j => NotEarlier(entries[i].dateSpan, entries[j].dateSpan)

PastCutoffOn(entries) ==
    \E k \in 1..Len(entries) : ~AfterCutoff(entries[k].dateSpan)

\* the summary as getDciLinksFromLanding hands it on
AsLink(e) ==
    [link |-> <<apex, e.href>>,
     headline |-> e.headline,
     date |-> <<e.dateSpan[1], " ", e.dateSpan[2], ",", " ", e.dateSpan[3]>>]

RECURSIVE KeptAfterCutoff(_)
KeptAfterCutoff(entries) ==
    IF entries = <<>> THEN <<>>
    ELSE IF AfterCutoff(Head(entries).dateSpan)
         THEN <<AsLink(Head(entries))>> \o KeptAfterCutoff(Tail(entries))
         ELSE KeptAfterCutoff(Tail(entries))

(***************************************************************************)
(* C3.  For a listing page whose summaries are in date-descending order,   *)
(* getDciLinksFromLanding returns exactly the summaries dated strictly     *)
(* after October 1, 2023, in listing order, and sets the flag done if and  *)
(* only if some summary of the page is dated on or before that day.        *)
(* (SpecFilter calls it with done = false.)                                *)
(***************************************************************************)
C3_FilterKeepsAfterCutoff ==
    (pc = "processing" /\ DateDescending(Entries(html))) =>
        /\ links = KeptAfterCutoff(Entries(html))
        /\ done <=> PastCutoffOn(Entries(html))

\* the page dated [2024-01-05, 2024-01-03, 2023-09-20, 2023-08-01]: the
\* first two are kept and the flag is set
C3_Witness ==
    /\ pc = "processing"
    /\ Len(Entries(html)) = 4
    /\ [k \in 1..4 |-> Entries(html)[k].href] = <<"/f1", "/f2", "/f5", "/f6">>
    /\ [k \in 1..Len(links) |-> links[k].link[2]] = <<"/f1", "/f2">>
    /\ done

(***************************************************************************)
(* C4.  hash(str) is the value got by starting at 0 and taking, for each   *)
(* character code in order, hash * 31 + code truncated to a signed 32-bit  *)
(* integer; it lies in -2^31 .. 2^31 - 1, and the hash of '' is 0.         *)
(***************************************************************************)
\* h * 31 + code modulo 2^32, as a signed 32-bit integer
Times31Plus(h, code) ==
    LET l == Lo16(h) * 31 + code
    IN  Int32((Hi16(h) * 31 + (l \div 65536)) % 65536, l % 65536)

RECURSIVE Rolling31(_, _)
Rolling31(str, n) ==
    IF n = 0 THEN 0
    ELSE Times31Plus(Rolling31(str, n - 1), CodeUnit[str[n]])

C4_HashIsRolling31 ==
    out # <<>> =>
        /\ out[1] = Rolling31(arg, Len(arg))
        /\ out[1] >= -2147483647 - 1
        /\ out[1] <= 2147483647
        /\ arg = <<>> => out[1] = 0

\* a string whose hash has wrapped around to a negative number
C4_Witness == out # <<>> /\ Len(arg) = MaxHashLen /\ out[1] < 0

(***************************************************************************)
(* C8.  For a date field <date text><whitespace run>-<metadata> with       *)
(* exactly one '-', getDate returns exactly the date text.                 *)
(***************************************************************************)
Hyphens(s) == {k \in 1..Len(s) : s[k] = "-"}

\* end of the date text: the last token before the '-' that is not whitespace
DateTextEnd(s) ==
    LET p == CHOOSE k \in Hyphens(s) : TRUE
        words == {k \in 1..(p - 1) : ~IsSpace(s[k])}
    IN  IF words = {} THEN 0 ELSE CHOOSE k \in words : \A j \in words : j <= k

\* s is <date text><whitespace run>-<metadata>: one '-', a date text that
\* neither starts nor ends with whitespace, and whitespace between it and the '-'
HasDateForm(s) ==
    /\ Cardinality(Hyphens(s)) = 1
    /\ DateTextEnd(s) >= 1
    /\ DateTextEnd(s) + 1 < CHOOSE k \in Hyphens(s) : TRUE
    /\ ~IsSpace(s[1])

C8_GetDateReturnsDateText ==
    (out # <<>> /\ HasDateForm(arg)) => out[1] = SubSeq(arg, 1, DateTextEnd(arg))

\* the example of the claim does parse to its date text
C8_ExampleHolds ==
    (out # <<>> /\ arg \in DateExamples) =>
        out[1] = <<"January", " ", "20", ",", " ", "2024">>

(***************************************************************************)
(* The pipeline claims.                                                    *)
(***************************************************************************)
\* the summaries of a page that getAndStoreArticlesFromLinks is to process:
\* a keyword occurs in the headline, letter case aside
FoldCode(c) == IF CodeUnit[c] \in 65..90 THEN CodeUnit[c] + 32 ELSE CodeUnit[c]

ContainsIgnoringCase(s, w) ==
    \E start \in 0..(Len(s) - Len(w)) :
        \A k \in 1..Len(w) : FoldCode(s[start + k]) = FoldCode(w[k])

matches ==
    [headline \in Headlines |->
        \E w \in keywords : ContainsIgnoringCase(Chars(headline), w)]

WithKeyword(l) == matches[l.headline]

\* the page result is made of the given summaries, in order
ResultOf(result, summaries) ==
    /\ Len(result) = Len(summaries)
    /\ \A k \in 1..Len(result) :
          /\ result[k].link = summaries[k].link
          /\ result[k].headline = summaries[k].headline

\* the page results of pages 1..n, one after the other
RECURSIVE PagesUpTo(_)
PagesUpTo(n) == IF n = 0 THEN <<>> ELSE PagesUpTo(n - 1) \o pageFile[n]

(***************************************************************************)
(* C1.  If a summary dated on or before October 1, 2023 is seen while      *)
(* listing page n is filtered, the flag done is set whatever the headline  *)
(* of that summary, the summaries retained from page n are still processed *)
(* and page_n.json is written, no listing page is loaded afterwards, and   *)
(* the run ends, all.json holding what it returns.                         *)
(***************************************************************************)
C1_StopOnPastCutoff ==
    /\ []((pc = "processing" /\ PastCutoffOn(Entries(html))) => done)
    /\ []((done /\ pc \in {"enter", "done"}) =>
            /\ loaded[Len(loaded)] = page - 1
            /\ page - 1 \in DOMAIN pageFile
            /\ links = KeptAfterCutoff(Entries(html))
            /\ ResultOf(pageFile[page - 1], SelectSeq(links, WithKeyword)))
    /\ [][done => loaded' = loaded]_vars
    /\ done ~> (pc = "done" /\ allJson = <<returned>>)

\* page 1 of a run that may load two pages holds a summary with a keyword
\* and then one of October 1, 2023 without any: the run is over after page 1
C1_Witness ==
    /\ pc = "done"
    /\ done
    /\ stop = MaxStop
    /\ loaded = <<1>>
    /\ Len(Entries(html)) = 2
    /\ Entries(html)[2].href = "/d"
    /\ ~matches[Entries(html)[2].headline]
    /\ Len(pageFile[1]) = 1

(***************************************************************************)
(* C2.  A second run from page 1 on the files the first run left performs  *)
(* no detail-page fetch and returns what the first run returned.  (Stated  *)
(* for a first run that ended by writing all.json.)                        *)
(***************************************************************************)
C2_IdempotentResume ==
    (resumed /\ pc = "done" /\ firstRun[1].allJson # <<>>) =>
        /\ detailFetches = 0
        /\ returned = firstRun[1].returned

\* the same, for a first run in which no article was left with victims null
C2_ResumeAfterFullExtraction ==
    (/\ resumed
     /\ pc = "done"
     /\ firstRun[1].allJson # <<>>
     /\ \A k \in 1..Len(firstRun[1].returned) :
            firstRun[1].returned[k].victims # Null) =>
        /\ detailFetches = 0
        /\ returned = firstRun[1].returned

(***************************************************************************)
(* C5.  Two summaries with the same headline and different links, taken    *)
(* one after the other by getAndStoreArticlesFromLinks: after the second,  *)
(* the cache entry holds the record, raw content and extraction result of  *)
(* the second.                                                             *)
(***************************************************************************)
\* summary i of the page under way and the one before it have one headline
\* and different links, and the one before it has been through the cache
SameHeadlinePair(i) ==
    /\ pc = "processing"
    /\ i >= 2
    /\ i <= Len(links)
    /\ links[i - 1].headline = links[i].headline
    /\ links[i - 1].link # links[i].link
    /\ matches[links[i].headline]

C5_SecondSupersedesFirst ==
    SameHeadlinePair(idx - 1) =>
        LET second == links[idx - 1]
            key == CacheKey(second)
        IN  /\ hashed[links[idx - 2].headline] = hashed[second.headline]
            /\ key \in DOMAIN metaFile
            /\ metaFile[key].link = second.link
            /\ htmlFile[key] \in {DetailPage(second.link), Empty}
            /\ metaFile[key].victims \in {Victims(second.link), Null}

(***************************************************************************)
(* C5 as amended.  The two summaries have the same hash, and when they are *)
(* dated in the same month of the same year they share the cache files.    *)
(* If the record found there holds victims that are not null, the second   *)
(* is served from it: no fetch, no write, the files stay as they are and   *)
(* the page result gives the second summary the victims of the record.     *)
(* Only if the record holds null victims is the second fetched, and then   *)
(* its record, raw content and extraction result replace what was there.   *)
(* In neither case is an error raised or anything merged.                  *)
(***************************************************************************)
C5_SecondReusesOrSupersedes ==
    [][(SameHeadlinePair(idx) /\ idx' = idx + 1
            /\ CacheKey(links[idx - 1]) = CacheKey(links[idx])) =>
        LET second == links[idx]
            key == CacheKey(second)
        IN  /\ hashed[links[idx - 1].headline] = hashed[second.headline]
            /\ key \in DOMAIN metaFile
            /\ pc' = "processing"
            /\ DOMAIN metaFile' = DOMAIN metaFile
            /\ IF metaFile[key].victims # Null
               THEN /\ UNCHANGED <<metaFile, htmlFile, detailFetches>>
                    /\ articles' = Append(articles,
                                       Article(second, key, metaFile[key].victims))
               ELSE /\ detailFetches' = detailFetches + 1
                    /\ metaFile'[key].link = second.link
                    /\ htmlFile'[key] \in {DetailPage(second.link), Empty}
                    /\ metaFile'[key].victims \in {Victims(second.link), Null}
                    /\ articles' = Append(articles, metaFile'[key])]_vars

\* "/a" was fetched and its victims extracted; "/a2", with the same
\* headline and month, got the victims of "/a" without a fetch
C5_Witness ==
    /\ pc = "processing"
    /\ ~resumed
    /\ page = 1
    /\ idx = 3
    /\ links[1].link = LinkOf("/a")
    /\ links[2].link = LinkOf("/a2")
    /\ detailFetches = 1
    /\ Len(articles) = 2
    /\ articles[2].link = LinkOf("/a2")
    /\ articles[2].victims = Victims(LinkOf("/a"))
    /\ metaFile[CacheKey(links[2])].link = LinkOf("/a")

(***************************************************************************)
(* C6.  When the extraction call for an article fails (remote error,       *)
(* response not OK, malformed reply), the raw content and a record with    *)
(* victims null are still written, the article is in the page result with  *)
(* victims null, and the run goes on and completes.                        *)
(***************************************************************************)
\* what line 333-340 makes of a failed extraction call: victims null
FailedExtractionGivesNull ==
    \A l \in {LinkOf(e.href) : e \in Summaries},
       outcome \in ExtractionOutcomes \ {"results"} :
        LET data == DataOrDefault(getPageAndConvertToData(DetailPage(l), l, outcome))
        IN  ~data.undefined /\ data.arguments = Null

C7_KeywordFilter ==
    [][(pc = "processing" /\ idx' = idx + 1) =>
        IF matches[links[idx].headline]
        THEN /\ Len(articles') = Len(articles) + 1
             /\ articles'[Len(articles')].link = links[idx].link
             /\ SubSeq(articles', 1, Len(articles)) = articles
        ELSE UNCHANGED <<articles, metaFile, htmlFile, detailFetches>>]_vars

\* "Council meeting schedule" was skipped and left no trace, "AIRSTRIKE
\* Wounds Girl" was fetched and stored
C7_Witness ==
    /\ pc = "processing"
    /\ ~resumed
    /\ page = 1
    /\ idx = 3
    /\ links[1].headline = "Council meeting schedule"
    /\ links[2].headline = "AIRSTRIKE Wounds Girl"
    /\ detailFetches = 1
    /\ Len(articles) = 1
    /\ articles[1].headline = "AIRSTRIKE Wounds Girl"
    /\ DOMAIN metaFile = {CacheKey(links[2])}

(***************************************************************************)
(* C9.  For every page limit stop and every outcome of the fetches and     *)
(* extractions, getArticlesRecursively comes to its end, and the listing   *)
(* pages it has loaded are 1, 2, ..., k in this order with k <= stop.      *)
(***************************************************************************)
C9_TerminatesWithinLimit ==
    /\ <>(pc = "done")
    /\ [](/\ Len(loaded) <= stop
          /\ \A i \in 1..Len(loaded) : loaded[i] = i)

\* a run that used up its page limit
C9_Witness ==
    /\ pc = "done"
    /\ ~done
    /\ stop = MaxStop
    /\ Len(loaded) = stop
    /\ page = stop + 1

(***************************************************************************)
(* C10.  If the content got for listing page n is empty, the run ends at   *)
(* once and returns the results of pages 1..n-1: no article is processed,  *)
(* no page_n.json and no other file is written, no later page is loaded,   *)
(* and no error is raised.                                                 *)
(***************************************************************************)
C10_EmptyListingEndsRun ==
    /\ [][(pc = "loading" /\ html' = Empty) =>
            /\ pc' = "done"
            /\ returned' = PagesUpTo(page - 1)
            /\ loaded' = Append(loaded, page)
            /\ page \notin DOMAIN pageFile
            /\ UNCHANGED <<page, acc, articles, detailFetches, pageFile, sourceFile,
                           metaFile, htmlFile, allJson>>]_vars
    /\ [][pc = "done" => (~resumed /\ resumed' /\ loaded' = <<>>)]_vars

\* page 1 gave an article, the content of page 2 was empty
C10_Witness ==
    /\ pc = "done"
    /\ ~resumed
    /\ html = Empty
    /\ loaded = <<1, 2>>
    /\ page = 2
    /\ Len(returned) = 1
    /\ returned = pageFile[1]
    /\ DOMAIN pageFile = {1}
    /\ allJson = <<>>

(***************************************************************************)
(* C11.  If a listing page n that is not empty holds no summary at all,    *)
(* the crawl ends there: no listing page with a number greater than n is   *)
(* loaded.                                                                 *)
(***************************************************************************)
\* listing page n of this run was handled and held no '.featured' entry
HeldNoSummary(n) ==
    /\ n \in DOMAIN sourceFile
    /\ n <= Len(loaded)
    /\ Entries(sourceFile[n]) = <<>>

C11_NoSummariesEndsCrawl ==
    \A n \in 1..Len(loaded) :
        HeldNoSummary(n) => \A i \in 1..Len(loaded) : loaded[i] <= n

(***************************************************************************)
(* C12.  Once the raw content of an article is stored with a record whose  *)
(* victims are null, a later encounter of the same article (on a later     *)
(* page or in a later run) does not fetch its detail page again.           *)
(***************************************************************************)
\* the summary about to be processed is the article of a stored record
\* with null victims whose raw content is on disk
StoredWithoutVictims(payload) ==
    /\ matches[payload.headline]
    /\ CacheKey(payload) \in DOMAIN metaFile
    /\ metaFile[CacheKey(payload)].link = payload.link
    /\ metaFile[CacheKey(payload)].victims = Null
    /\ htmlFile[CacheKey(payload)] = DetailPage(payload.link)

C12_NoRefetchOfStoredContent ==
    [][(/\ pc = "processing"
        /\ idx <= Len(links)
        /\ idx' = idx + 1
        /\ \A j \in 1..(idx - 1) : links[j].link # links[idx].link
        /\ StoredWithoutVictims(links[idx])) =>
            detailFetches' = detailFetches]_vars

(***************************************************************************)
(* A disk that may refuse a write.  promises.mkdir and promises.writeFile  *)
(* reject; none of the calls at lines 344-349, 401-406 and 417 is in a try *)
(* block that catches it (the ones of getAndStoreArticlesFromLinks are in  *)
(* the catch block itself), so the rejection passes through the reduce and *)
(* through every getArticlesRecursively call to the caller at line 422.    *)
(***************************************************************************)
StoreWrites == {"mkdir", "htmlFile", "metaFile"}
PersistWrites == {"mkdir", "pageFile", "sourceFile"}

\* lines 330-349 when mkdir or one of the two writeFile calls rejects: the
\* detail page was fetched and the extraction called before
StoreFails ==
    /\ pc = "processing"
    /\ idx <= Len(links)
    /\ hasKeyword[links[idx].headline]
    /\ ~CacheHit(links[idx])
    /\ \E direct \in DirectOutcomes, fallback \in FallbackOutcomes,
          write \in StoreWrites :
            /\ fault' = <<write>>
            /\ htmlFile' =
                 IF write = "metaFile"
                 THEN (CacheKey(links[idx]) :>
                          fetchHTML(DetailPage(links[idx].link), direct, fallback))
                      @@ htmlFile
                 ELSE htmlFile
            /\ extractorCalls' =
                 IF fetchHTML(DetailPage(links[idx].link), direct, fallback) = Empty
                 THEN extractorCalls
                 ELSE extractorCalls + 1
    /\ detailFetches' = detailFetches + 1
    /\ pc' = "failed"
    /\ UNCHANGED <<done, page, stop, acc, html, links, idx, articles, returned,
                   sourceFile, pageFile, allJson, metaFile, loaded, resumed,
                   firstRun, arg, out, tasks>>

\* the mutated lines 401-406: the rejection is caught and the crawl goes on
PersistFailsSwallowed ==
    /\ pc = "processing"
    /\ idx > Len(links)
    /\ \E write \in PersistWrites : fault' = <<write>>
    /\ page' = page + 1
    /\ acc' = acc \o articles
    /\ pc' = "enter"
    /\ UNCHANGED <<done, stop, html, links, idx, articles, returned, sourceFile,
                   pageFile, allJson, metaFile, htmlFile, loaded, detailFetches, extractorCalls,
                   resumed, firstRun, arg, out, tasks>>

\* lines 401-406 when mkdir or one of the two writeFile calls rejects
PersistFails ==
    /\ pc = "processing"
    /\ idx > Len(links)
    /\ \E write \in PersistWrites :
            /\ fault' = <<write>>
            /\ pageFile' = IF write = "sourceFile"
                           THEN (page :> articles) @@ pageFile
                           ELSE pageFile
    /\ pc' = "failed"
    /\ UNCHANGED <<done, page, stop, acc, html, links, idx, articles, returned,
                   sourceFile, allJson, metaFile, htmlFile, loaded, detailFetches, extractorCalls,
                   resumed, firstRun, arg, out, tasks>>

\* line 417 when the write of all.json rejects
AggregateFails ==
    /\ pc = "enter"
    /\ ~Continue(done, page, stop)
    /\ fault' = <<"allJson">>
    /\ pc' = "failed"
    /\ UNCHANGED <<done, page, stop, acc, html, links, idx, articles, returned,
                   sourceFile, pageFile, allJson, metaFile, htmlFile, loaded,
                   detailFetches, extractorCalls, resumed, firstRun, arg, out, tasks>>

DiskStep == StoreFails \/ PersistFails \/ AggregateFails

SpecDisk == Init /\ [][RunStep \/ DiskStep]_vars

(***************************************************************************)
(* C13.  If a disk write fails while page n is handled (raw content, cache *)
(* record, page result or listing file), the run aborts with an error: no  *)
(* later listing page is loaded, all.json is not written and the run does  *)
(* not come to a successful end.                                           *)
(***************************************************************************)
C13_WriteFailureAborts ==
    /\ [](fault # <<>> => (pc = "failed" /\ allJson = <<>>))
    /\ [][fault' # <<>> =>
            (pc' = "failed" /\ UNCHANGED <<loaded, allJson, returned, page, acc>>)]_vars
    /\ [][fault = <<>>]_vars

\* page 1 was stored, the write of page_2.json failed
C13_Witness ==
    /\ fault = <<"pageFile">>
    /\ pc = "failed"
    /\ loaded = <<1, 2>>
    /\ stop = MaxStop
    /\ DOMAIN pageFile = {1}
    /\ Len(articles) >= 1
    /\ allJson = <<>>

(***************************************************************************)
(* fetchHTML (lines 34-54) on the text of a response, token by token: the  *)
(* request, the fallback scrapePage and the three replace calls.           *)
(***************************************************************************)
MaxMarkupLen == 4

MarkupAlphabet == {"<style", "</style>", "<script", "</script>", "p", "\n", " "}

\* html.replace(/<open([\s\S]*?)<\/close>/gm, ''): from an opening tag to
\* the first closing tag after it
RECURSIVE RemoveBlocksFrom(_, _, _, _)
RemoveBlocksFrom(s, i, open, close) ==
    IF i > Len(s) THEN <<>>
    ELSE LET ends == {j \in (i + 1)..Len(s) : s[j] = close}
         IN  IF s[i] = open /\ ends # {}
             THEN RemoveBlocksFrom(s, (CHOOSE j \in ends : \A k \in ends : j <= k) + 1,
                                   open, close)
             ELSE <<s[i]>> \o RemoveBlocksFrom(s, i + 1, open, close)

\* html.replace(/\n\s*\n/g, ''): a newline, the longest stretch of
\* whitespace that still ends in a newline
RECURSIVE RemoveBlankLinesFrom(_, _)
RemoveBlankLinesFrom(s, i) ==
    IF i > Len(s) THEN <<>>
    ELSE LET ends == {j \in (i + 1)..Len(s) :
                         /\ s[j] = "\n"
                         /\ \A k \in (i + 1)..j : s[k] \in {"\n", " "}}
         IN  IF s[i] = "\n" /\ ends # {}
             THEN RemoveBlankLinesFrom(s, (CHOOSE j \in ends : \A k \in ends : k <= j) + 1)
             ELSE <<s[i]>> \o RemoveBlankLinesFrom(s, i + 1)

\* lines 46-49
CleanHtml(text) ==
    RemoveBlankLinesFrom(
        RemoveBlocksFrom(RemoveBlocksFrom(text, 1, "<style", "</style>"),
                         1, "<script", "</script>"), 1)

\* the try block, lines 36-50: what it returns or that it threw, and the
\* calls of scrapePage it made
fetchHTMLTry(text, direct, fallback) ==
    IF direct = "throws"
    THEN [threw |-> TRUE, html |-> Empty, scrapePageCalls |-> 0]
    ELSE LET body == IF direct = "body" THEN text ELSE Empty
         IN  IF body # Empty
             THEN [threw |-> FALSE, html |-> CleanHtml(body), scrapePageCalls |-> 0]
             ELSE IF fallback = "throws"
             THEN [threw |-> TRUE, html |-> Empty, scrapePageCalls |-> 1]
             ELSE [threw |-> FALSE, html |-> CleanHtml(text), scrapePageCalls |-> 1]

\* the mutated fetchHTML: no catch block
fetchHTMLNoCatch(text, direct, fallback) == fetchHTMLTry(text, direct, fallback)

\* lines 35-53: the try block and its catch, which returns ''
fetchHTMLCall(text, direct, fallback) ==
    LET r == fetchHTMLTry(text, direct, fallback)
    IN  IF r.threw
        THEN [threw |-> FALSE, html |-> Empty, scrapePageCalls |-> r.scrapePageCalls]
        ELSE r

InitFetch ==
    /\ RunIdle
    /\ arg \in SeqsUpTo(MarkupAlphabet, MaxMarkupLen)
                  \X DirectOutcomes \X FallbackOutcomes
    /\ out = <<>>

CallFetchHTML ==
    /\ out = <<>>
    /\ out' = <<fetchHTMLCall(arg[1], arg[2], arg[3])>>
    /\ UNCHANGED <<runVars, arg>>

SpecFetch == InitFetch /\ [][CallFetchHTML]_vars

(***************************************************************************)
(* C14.  fetchHTML never throws: whatever fails, the direct request or the *)
(* fallback renderer, it returns a value, the empty string on failure; and *)
(* when the direct request succeeds with an empty body, scrapePage is      *)
(* called exactly once and its content (cleaned as every page is) is       *)
(* returned.                                                               *)
(***************************************************************************)
\* the direct request came back with an empty body
EmptyBody(call) == call[2] = "emptyBody" \/ (call[2] = "body" /\ call[1] = <<>>)

MaxUndatedLen == 3

UndatedSummaries ==
    { Featured("Boy killed in strike", "January", "5", "2024", "/f1"),
      Featured("Council meeting schedule", "January", "3", "2024", "/f2"),
      Featured("Boy shot dead", "September", "20", "2023", "/f5"),
      [headline |-> "Boy killed in strike", dateSpan |-> BlankDate, href |-> "/u1"] }

UndatedCall ==
    /\ pc = "idle"
    /\ \E e \in SeqsUpTo(UndatedSummaries, MaxUndatedLen) : html' = <<"listing", e>>
    /\ pc' = "filtering"
    /\ UNCHANGED <<done, page, stop, acc, links, idx, articles, returned, sourceFile,
                   pageFile, allJson, metaFile, htmlFile, loaded, detailFetches, extractorCalls,
                   resumed, firstRun, fault, arg, out, tasks>>

SpecUndated == InitFilter /\ [][UndatedCall \/ Filter]_vars

(***************************************************************************)
(* C15.  A summary whose date text cannot be parsed is treated by          *)
(* getDciLinksFromLanding as not past the cutoff (the flag done is not set *)
(* because of it) and as not relevant (it is not in the output).           *)
(***************************************************************************)
Dated(entries) == SelectSeq(entries, LAMBDA e : e.dateSpan # BlankDate)

C15_UnparseableDateDoesNotStop ==
    pc = "processing" =>
        /\ links = KeptAfterCutoff(Dated(Entries(html)))
        /\ done <=> PastCutoffOn(Dated(Entries(html)))

\* the half of it that holds: the summary is never in the output
C15_UnparseableDateNotKept ==
    pc = "processing" => links = KeptAfterCutoff(Dated(Entries(html)))

(***************************************************************************)
(* The keyword test of line 307 for other keyword arrays than the one of   *)
(* lines 129-150.                                                          *)
(***************************************************************************)
KeywordChoices ==
    { <<"k", "i", "l", "l">>, <<"s", "t", "r", "i", "k", "e">>,
      <<"s", "h", "o", "t">>, <<"w", "o", "u", "n", "d">> }

InitKeywords ==
    /\ RunIdle
    /\ arg \in (SUBSET KeywordChoices) \X Headlines
    /\ out = <<>>

CallSomeKeyword ==
    /\ out = <<>>
    /\ out' = <<SomeKeyword(arg[1], arg[2])>>
    /\ UNCHANGED <<runVars, arg>>

SpecKeywords == InitKeywords /\ [][CallSomeKeyword]_vars

(***************************************************************************)
(* C16.  With an empty keyword set the keyword filter matches everything:  *)
(* every summary that passed the date filter is processed, whatever its    *)
(* headline.                                                               *)
(***************************************************************************)
C16_EmptyKeywordSetMatchesAll ==
    (out # <<>> /\ arg[1] = {}) => out[1]

\* with keywords in the set, the test is the one of C7
C16_KeywordSetDecides ==
    (out # <<>> /\ arg[1] # {}) =>
        (out[1] <=> \E w \in arg[1] : ContainsIgnoringCase(Chars(arg[2]), w))

(***************************************************************************)
(* One call of getArticlesRecursively on a listing page that may hold      *)
(* entries without h3, without date element or without anchor.             *)
(***************************************************************************)
MaxMalformedLen == 2

MalformedSummaries ==
    { Featured("AIRSTRIKE Wounds Girl", "January", "2", "2024", "/e"),
      Featured(Missing, "January", "5", "2024", "/m1"),
      [headline |-> "Boy shot dead", dateSpan |-> NoDate, href |-> "/m2"],
      Featured("Boy killed in strike", "January", "20", "2024", Missing) }

MalformedCall ==
    /\ pc = "idle"
    /\ \E e \in SeqsUpTo(MalformedSummaries, MaxMalformedLen) :
            html' = <<"listing", e>>
    /\ pc' = "filtering"
    /\ UNCHANGED <<done, page, stop, acc, links, idx, articles, returned, sourceFile,
                   pageFile, allJson, metaFile, htmlFile, loaded, detailFetches, extractorCalls,
                   resumed, firstRun, fault, arg, out, tasks>>

SpecMalformed ==
    InitFilter /\ [][MalformedCall \/ Filter \/ ProcessArticle \/ Persist \/ Enter]_vars

(***************************************************************************)
(* C17.  When a listing entry lacks a required field (no headline element, *)
(* no date element, or no link), that entry alone is left out of the       *)
(* parser's output, the other entries of the page are still returned and   *)
(* processed, and the run goes on without a hard error.                    *)
(***************************************************************************)
Complete(e) == e.headline # Missing /\ e.dateSpan # NoDate /\ e.href # Missing

C17_SoftParseFailure ==
    /\ pc # "failed"
    /\ pc = "processing" => links = KeptAfterCutoff(SelectSeq(Entries(html), Complete))

\* a page of complete entries is handled to its end
C17_CompleteEntriesPass ==
    (html # Empty /\ \A k \in 1..Len(Entries(html)) : Complete(Entries(html)[k])) =>
        pc # "failed"

(***************************************************************************)
(* C18.  Every crawl that comes to its end, be it by the flag done, by the *)
(* page limit or by the empty content of a page, writes all.json exactly   *)
(* once, and nothing is written to it before the end.                      *)
(***************************************************************************)
C18_AggregateWrittenAtEnd ==
    /\ pc = "done" => allJson = <<returned>>
    /\ pc # "done" => allJson = <<>>

\* the same for the crawls that do not end on an empty page
C18_AggregateUnlessEmptyPage ==
    /\ (pc = "done" /\ (loaded = <<>> \/ html # Empty)) => allJson = <<returned>>
    /\ pc # "done" => allJson = <<>>

(***************************************************************************)
(* The name search tool: getNameVariations, searchURL, countOccurrences    *)
(* and main.  A string is the sequence of its characters.  The names are   *)
(* drawn from letters, the space and "(", a character that new RegExp does *)
(* not take literally: a pattern with "(" and no ")" is an unterminated    *)
(* group and new RegExp throws SyntaxError.                                *)
(***************************************************************************)
MaxNameLen == 3

NameAlphabet == {"a", "A", "b", " ", "("}

urls == <<"https://airwars.org/civilian-casualties/?belligerent=israeli-military&start_date=2023-10-07&country=the-gaza-strip&search=",
          "https://www.aintnumbers.com/?s=">>

\* fullName.split(' ')
RECURSIVE split(_)
split(s) ==
    IF \A k \in 1..Len(s) : s[k] # " "
    THEN <<s>>
    ELSE LET k == CHOOSE i \in 1..Len(s) :
                      s[i] = " " /\ \A j \in 1..(i - 1) : s[j] # " "
         IN  <<SubSeq(s, 1, k - 1)>> \o split(SubSeq(s, k + 1, Len(s)))

getNameVariations(fullName) ==
    LET names == split(fullName)
        n == Len(names)
    IN  IF n = 1
        THEN <<fullName>>
        ELSE << names[n],
                names[n - 1] \o <<" ">> \o names[n],
                names[1] \o <<" ">> \o names[n],
                names[1],
                fullName >>

\* what axios.get does for one site: the request rejects, or answers with a body
Rejected == <<"rejected", <<>>>>
NoHtml == <<"null", <<>>>>
Bodies == { <<>>, <<"a", " ", "b">>, <<"A", "a">> }
SiteOutcomes == {Rejected} \cup {<<"data", b>> : b \in Bodies}

searchURL(response) == IF response = Rejected THEN NoHtml ELSE response

\* new RegExp(term, 'gi') succeeds
IsPattern(term) == \A k \in 1..Len(term) : term[k] # "("

FoldName(c) == IF c \in Characters THEN toLowerCaseChar(c) ELSE c

\* the number of matches text.match(regex) returns with the flags g and i:
\* leftmost, not overlapping; the empty pattern matches at every position
RECURSIVE MatchesFrom(_, _, _)
MatchesFrom(text, term, k) ==
    IF k + Len(term) - 1 > Len(text)
    THEN 0
    ELSE IF \A j \in 1..Len(term) : FoldName(text[k + j - 1]) = FoldName(term[j])
    THEN 1 + MatchesFrom(text, term, k + Len(term))
    ELSE MatchesFrom(text, term, k + 1)

MatchCount(text, term) ==
    IF term = <<>> THEN Len(text) + 1 ELSE MatchesFrom(text, term, 1)

countOccurrences(text, terms) ==
    IF \E t \in terms : ~IsPattern(t)
    THEN [threw |-> TRUE, counts |-> <<>>]
    ELSE [threw |-> FALSE, counts |-> [t \in terms |-> MatchCount(text, t)]]

ErrorFetching == <<"error", <<>>>>

\* the body of the loop over urls, for one url
SiteResult(response, uniqueVariations) ==
    IF searchURL(response)[1] = "data" /\ searchURL(response)[2] # <<>>
    THEN IF countOccurrences(response[2], uniqueVariations).threw
         THEN <<"threw", <<>>>>
         ELSE <<"counts", countOccurrences(response[2], uniqueVariations).counts>>
    ELSE ErrorFetching

uniqueVariationsOf(name) ==
    {getNameVariations(name)[i] : i \in 1..Len(getNameVariations(name))}

main(name, responses) ==
    LET results == [i \in 1..Len(urls) |->
                        SiteResult(responses[i], uniqueVariationsOf(name))]
    IN  IF \E i \in 1..Len(urls) : results[i][1] = "threw"
        THEN [threw |-> TRUE, results |-> <<>>]
        ELSE [threw |-> FALSE, results |-> results]

InitNames ==
    /\ RunIdle
    /\ arg \in SeqsUpTo(NameAlphabet, MaxNameLen) \X [1..Len(urls) -> SiteOutcomes]
    /\ out = <<>>

CallMain ==
    /\ out = <<>>
    /\ out' = <<main(arg[1], arg[2])>>
    /\ UNCHANGED <<runVars, arg>>

SpecNames == InitNames /\ [][CallMain]_vars

(***************************************************************************)
(* C19.  For every name main produces a result for every configured site:  *)
(* an occurrence count for each unique variation of the name when the      *)
(* request to the site succeeds, the error marker when it fails; a failed  *)
(* request to one site does not keep the other sites from being searched.  *)
(***************************************************************************)
C19_ResultForEverySite ==
    out # <<>> =>
        /\ ~out[1].threw
        /\ \A i \in 1..Len(urls) :
              IF arg[2][i] = Rejected
              THEN out[1].results[i] = ErrorFetching
              ELSE /\ out[1].results[i][1] = "counts"
                   /\ DOMAIN out[1].results[i][2] = uniqueVariationsOf(arg[1])

\* the same for names that are patterns and for bodies that are not empty
C19_ResultForPlainNames ==
    (/\ out # <<>>
     /\ IsPattern(arg[1])
     /\ \A i \in 1..Len(urls) : arg[2][i] # <<"data", <<>>>>) =>
        /\ ~out[1].threw
        /\ \A i \in 1..Len(urls) :
              IF arg[2][i] = Rejected
              THEN out[1].results[i] = ErrorFetching
              ELSE /\ out[1].results[i][1] = "counts"
                   /\ DOMAIN out[1].results[i][2] = uniqueVariationsOf(arg[1])
                   /\ \A t \in uniqueVariationsOf(arg[1]) :
                         t # <<>> =>
                            (out[1].results[i][2][t] > 0 <=>
                                \E k \in 0..(Len(arg[2][i][2]) - Len(t)) :
                                    \A j \in 1..Len(t) :
                                        FoldName(arg[2][i][2][k + j]) = FoldName(t[j]))

(***************************************************************************)
(* C20.  The first summary of a page dated on or before the cutoff is      *)
(* authoritative: on a page in any order, every summary that follows it on *)
(* that page is left out of the result of the filter whatever its date,    *)
(* and every summary dated after the cutoff that precedes it is kept.      *)
(***************************************************************************)
\* the summaries that precede the first one dated on or before the cutoff
RECURSIVE BeforeBoundary(_)
BeforeBoundary(entries) ==
    IF entries = <<>> THEN <<>>
    ELSE IF AfterCutoff(Head(entries).dateSpan)
         THEN <<AsLink(Head(entries))>> \o BeforeBoundary(Tail(entries))
         ELSE <<>>

C20_FirstPastCutoffIsAuthoritative ==
    pc = "processing" => links = BeforeBoundary(Entries(html))

\* the half that holds: the summaries before the boundary are kept, in order,
\* at the head of the result
C20_KeptBeforeBoundary ==
    pc = "processing" =>
        /\ Len(BeforeBoundary(Entries(html))) <= Len(links)
        /\ SubSeq(links, 1, Len(BeforeBoundary(Entries(html)))) =
               BeforeBoundary(Entries(html))

(***************************************************************************)
(* C21.  A cache hit leaves everything unchanged: when the reduce of       *)
(* getAndStoreArticlesFromLinks meets a summary whose cache record exists  *)
(* with an extraction result that is not null, it fetches no detail page,  *)
(* calls no extractor, writes neither the raw content file nor the cache   *)
(* record, and the entry added to the page result carries exactly the      *)
(* extraction result of the record.                                        *)
(***************************************************************************)
StoredWithVictims(payload) ==
    /\ CacheKey(payload) \in DOMAIN metaFile
    /\ metaFile[CacheKey(payload)].victims # Null

C21_CacheHitLeavesAllUnchanged ==
    [][(/\ pc = "processing"
        /\ idx <= Len(links)
        /\ idx' = idx + 1
        /\ StoredWithVictims(links[idx])) =>
            /\ UNCHANGED <<detailFetches, extractorCalls, metaFile, htmlFile>>
            /\ Len(articles') = Len(articles) + 1
            /\ SubSeq(articles', 1, Len(articles)) = articles
            /\ articles'[Len(articles')].headline = links[idx].headline
            /\ articles'[Len(articles')].link = links[idx].link
            /\ articles'[Len(articles')].victims =
                   metaFile[CacheKey(links[idx])].victims]_vars

\* the second run met "/a", stored with its victims by the first run, and
\* added it to the page result without a fetch or an extractor call
C21_Witness ==
    /\ resumed
    /\ pc = "processing"
    /\ idx = 2
    /\ links[1].link = LinkOf("/a")
    /\ Len(articles) = 1
    /\ articles[1].victims = Victims(LinkOf("/a"))
    /\ detailFetches = 0
    /\ extractorCalls = 0

(***************************************************************************)
(* C22.  The cache entry consulted for a summary is determined by its      *)
(* headline alone: when an earlier encounter of the same headline left an  *)
(* extraction result that is not null, a later encounter reuses it and is  *)
(* never a cache miss, whatever the links and the dates of the two, dates  *)
(* in different months or years included.                                  *)
(***************************************************************************)
\* a record of this headline holds victims, under whatever year and month
HeadlineStoredWithVictims(payload) ==
    \E key \in DOMAIN metaFile :
        /\ key[3] = hashed[payload.headline]
        /\ metaFile[key].headline = payload.headline
        /\ metaFile[key].victims # Null

C22_CacheKeyedByHeadlineAlone ==
    [][(/\ pc = "processing"
        /\ idx <= Len(links)
        /\ idx' = idx + 1
        /\ HeadlineStoredWithVictims(links[idx])) =>
            /\ UNCHANGED <<detailFetches, extractorCalls>>
            /\ \E key \in DOMAIN metaFile :
                  /\ key[3] = hashed[links[idx].headline]
                  /\ articles'[Len(articles')].victims = metaFile[key].victims]_vars

(***************************************************************************)
(* C23.  Pages are processed strictly one after the other: in every run    *)
(* the loading of listing page n+1 does not begin before every article of  *)
(* page n has been processed and the result file of page n has been        *)
(* written, and at no point are two pages in progress.                     *)
(***************************************************************************)
C23_PagesStrictlySequential ==
    /\ [][Len(loaded') > Len(loaded) =>
            /\ pc = "loading"
            /\ loaded' = Append(loaded, page)
            /\ page = Len(loaded) + 1
            /\ loaded # <<>> =>
                  /\ idx = Len(links) + 1
                  /\ (page - 1) \in DOMAIN pageFile
                  /\ pageFile[page - 1] = articles
                  /\ sourceFile[page - 1] = html]_vars
    /\ [](pc \in {"filtering", "processing"} =>
            (loaded # <<>> /\ loaded[Len(loaded)] = page))
    /\ [][Len(loaded') < Len(loaded) => (pc = "done" /\ loaded' = <<>>)]_vars

\* page 2 is loaded after the two articles of page 1 were processed and
\* page_1.json was written
C23_Witness ==
    /\ ~resumed
    /\ pc = "filtering"
    /\ loaded = <<1, 2>>
    /\ idx = 3
    /\ Len(links) = 2
    /\ Len(pageFile[1]) = 2

(***************************************************************************)
(* getArticles of src/sites/dci-palestine.org.js (lines 261-315): the      *)
(* callbacks of links.map run under Promise.all, each one up to its next   *)
(* await, in any order.  A callback of a headline with a keyword           *)
(*   "extract"   reads htmlFile and calls the extractor (lines 281-288),   *)
(*   "access"    awaits promises.access(htmlFile) (line 292),              *)
(*   "fetch"     awaits fetch(link) and res.text() (lines 297-298),        *)
(*   "writeHtml" awaits mkdir and writeFile(htmlFile) (lines 300-301),     *)
(*   "writeMeta" awaits writeFile(metaFile) (lines 302-305),               *)
(* and ends "reused" (line 293), "wrote" (line 306) or "rejected"; a       *)
(* callback of a headline without keyword returns null at once.            *)
(***************************************************************************)
MaxTasks == 2

Task(position, victims) == [pc |-> position, victims |-> victims]

MapFrame ==
    UNCHANGED <<done, page, stop, acc, html, idx, articles, returned, sourceFile,
                pageFile, allJson, loaded, resumed, firstRun, fault, arg, out>>

getArticlesCall ==
    /\ pc = "idle"
    /\ \E e \in SeqsUpTo(Summaries, MaxTasks) :
          /\ links' = [i \in 1..Len(e) |-> AsLink(e[i])]
          /\ tasks' = [i \in 1..Len(e) |->
                          IF hasKeyword[e[i].headline]
                          THEN Task("extract", Null)
                          ELSE Task("null", Null)]
    /\ pc' = "mapping"
    /\ UNCHANGED <<metaFile, htmlFile, detailFetches, extractorCalls>>
    /\ MapFrame

\* lines 281-290: readFileSync throws when htmlFile is absent, and data
\* keeps { arguments: null }; else the text of the file goes to the extractor
Extract ==
    /\ pc = "mapping"
    /\ \E i \in 1..Len(tasks) :
          /\ tasks[i].pc = "extract"
          /\ IF CacheKey(links[i]) \in DOMAIN htmlFile
             THEN \E outcome \in ExtractionOutcomes :
                    /\ tasks' = [tasks EXCEPT ![i] =
                          Task("access",
                               DataOrDefault(getPageAndConvertToData(
                                   htmlFile[CacheKey(links[i])],
                                   htmlFile[CacheKey(links[i])][2],
                                   outcome)).arguments)]
                    /\ extractorCalls' = extractorCalls + 1
             ELSE /\ tasks' = [tasks EXCEPT ![i] = Task("access", Null)]
                  /\ extractorCalls' = extractorCalls
    /\ UNCHANGED <<pc, links, metaFile, htmlFile, detailFetches>>
    /\ MapFrame

\* lines 291-295: htmlFile is there and the callback returns, or it is not
Access ==
    /\ pc = "mapping"
    /\ \E i \in 1..Len(tasks) :
          /\ tasks[i].pc = "access"
          /\ tasks' = [tasks EXCEPT ![i].pc =
                          IF CacheKey(links[i]) \in DOMAIN htmlFile
                          THEN "reused" ELSE "fetch"]
    /\ UNCHANGED <<pc, links, metaFile, htmlFile, detailFetches, extractorCalls>>
    /\ MapFrame

\* lines 297-298: the request, which may reject; nothing catches it
Fetch ==
    /\ pc = "mapping"
    /\ \E i \in 1..Len(tasks) :
          /\ tasks[i].pc = "fetch"
          /\ \E answer \in {"body", "throws"} :
                tasks' = [tasks EXCEPT ![i].pc =
                             IF answer = "body" THEN "writeHtml" ELSE "rejected"]
    /\ detailFetches' = detailFetches + 1
    /\ UNCHANGED <<pc, links, metaFile, htmlFile, extractorCalls>>
    /\ MapFrame

\* lines 300-301
WriteHtml ==
    /\ pc = "mapping"
    /\ \E i \in 1..Len(tasks) :
          /\ tasks[i].pc = "writeHtml"
          /\ tasks' = [tasks EXCEPT ![i].pc = "writeMeta"]
          /\ htmlFile' = (CacheKey(links[i]) :> DetailPage(links[i].link)) @@ htmlFile
    /\ UNCHANGED <<pc, links, metaFile, detailFetches, extractorCalls>>
    /\ MapFrame

\* lines 302-306; the record of this variant has no htmlFile field, which
\* is kept here so that the records of the model are of one kind
WriteMeta ==
    /\ pc = "mapping"
    /\ \E i \in 1..Len(tasks) :
          /\ tasks[i].pc = "writeMeta"
          /\ tasks' = [tasks EXCEPT ![i].pc = "wrote"]
          /\ metaFile' = (CacheKey(links[i]) :>
                            Article(links[i], CacheKey(links[i]), tasks[i].victims))
                             @@ metaFile
    /\ UNCHANGED <<pc, links, htmlFile, detailFetches, extractorCalls>>
    /\ MapFrame

\* lines 262-263 and 311-313: Promise.all resolves when every callback has,
\* to the values they returned, in the order of links, or rejects with the
\* first rejection.  .filter((article) => article !== null) is applied to
\* the promises the map returned, none of which is null, and removes none.
\* In this specification an element of articles is Null, that is <<"null">>,
\* or <<"entry", the entry>>.
Resolve ==
    /\ pc = "mapping"
    /\ \A i \in 1..Len(tasks) : tasks[i].pc \in {"null", "reused", "wrote", "rejected"}
    /\ IF \E i \in 1..Len(tasks) : tasks[i].pc = "rejected"
       THEN /\ pc' = "failed"
            /\ articles' = articles
       ELSE /\ pc' = "mapped"
            /\ articles' = [i \in 1..Len(tasks) |->
                               IF tasks[i].pc = "null"
                               THEN Null
                               ELSE <<"entry", Article(links[i], CacheKey(links[i]),
                                                       tasks[i].victims)>>]
    /\ UNCHANGED <<done, page, stop, acc, html, links, idx, returned, sourceFile,
                   pageFile, allJson, metaFile, htmlFile, loaded, detailFetches,
                   extractorCalls, resumed, firstRun, fault, tasks, arg, out>>

SpecMap ==
    InitFilter /\ [][getArticlesCall \/ Extract \/ Access \/ Fetch \/ WriteHtml
                        \/ WriteMeta \/ Resolve]_vars

(***************************************************************************)
(* C24.  No double miss-fetch-write for one key: two summaries of a page   *)
(* given to getArticles that share a cache key (same headline and month)   *)
(* never both find the file absent, both fetch and both write it.          *)
(***************************************************************************)
C24_NoDoubleMissFetchWrite ==
    \A i \in 1..Len(tasks) : \A j \in 1..Len(tasks) :
        (i < j /\ CacheKey(links[i]) = CacheKey(links[j])) =>
            ~(tasks[i].pc = "wrote" /\ tasks[j].pc = "wrote")

\* summaries with different keys do not meet in a file: each writes its own
C24_DistinctKeysDistinctFiles ==
    \A i \in 1..Len(tasks) :
        tasks[i].pc = "wrote" =>
            /\ CacheKey(links[i]) \in DOMAIN metaFile
            /\ (\A j \in 1..Len(tasks) :
                    j # i => CacheKey(links[j]) # CacheKey(links[i]))
                => metaFile[CacheKey(links[i])].link = links[i].link

(***************************************************************************)
(* C25.  Within one page getAndStoreArticlesFromLinks takes the summaries  *)
(* one at a time and in listing order: the cache lookup of summary i+1     *)
(* starts only after the fetch, the extraction and the writes of summary i *)
(* are over, nothing is left running when the function returns, and the    *)
(* page result lists the processed summaries in the order of the input.    *)
(***************************************************************************)
\* the summaries with a keyword among the first n of ls, in order
RECURSIVE KeywordLinks(_, _)
KeywordLinks(ls, n) ==
    IF n = 0 THEN <<>>
    ELSE IF WithKeyword(ls[n])
         THEN Append(KeywordLinks(ls, n - 1), ls[n])
         ELSE KeywordLinks(ls, n - 1)

C25_OneAtATimeInListingOrder ==
    /\ [](pc = "processing" =>
            /\ idx \in 1..(Len(links) + 1)
            /\ ResultOf(articles, KeywordLinks(links, idx - 1))
            /\ \A k \in 1..Len(articles) :
                  /\ articles[k].htmlFile \in DOMAIN metaFile
                  /\ articles[k].htmlFile \in DOMAIN htmlFile)
    /\ [][(pc = "processing" /\ idx' # idx) =>
            (idx' = idx + 1 /\ pc' \in {"processing", "failed"})]_vars
    /\ [][(pc = "processing" /\ pc' = "enter") =>
            /\ idx = Len(links) + 1
            /\ pageFile'[page] = articles
            /\ ResultOf(articles, KeywordLinks(links, Len(links)))]_vars

\* "/e" and then "/a" were listed, both were fetched and stored, and the
\* page result holds them in that order
C25_Witness ==
    /\ ~resumed
    /\ pc = "processing"
    /\ idx = 3
    /\ Len(links) = 2
    /\ links[1].link = LinkOf("/e")
    /\ links[2].link = LinkOf("/a")
    /\ Len(articles) = 2
    /\ articles[1].link = LinkOf("/e")
    /\ articles[2].link = LinkOf("/a")
    /\ detailFetches = 2

(***************************************************************************)
(* C26.  A cache record is created only on a successful fetch: when the    *)
(* fetch of the detail page of a relevant article fails and yields empty   *)
(* content, neither the raw content file nor the cache record is written,  *)
(* and the cache is as it was.  (A fetch that yields empty content is the  *)
(* one after which the extractor is not called.)                           *)
(***************************************************************************)
C26_NoRecordOnFailedFetch ==
    [][(/\ pc = "processing"
        /\ detailFetches' = detailFetches + 1
        /\ extractorCalls' = extractorCalls) =>
            UNCHANGED <<metaFile, htmlFile>>]_vars

\* what is written then: the empty raw content and a record without victims
C26_FailedFetchStoresEmpty ==
    [][(/\ pc = "processing"
        /\ detailFetches' = detailFetches + 1
        /\ extractorCalls' = extractorCalls) =>
            /\ htmlFile'[CacheKey(links[idx])] = Empty
            /\ metaFile'[CacheKey(links[idx])].victims = Null
            /\ metaFile'[CacheKey(links[idx])].link = links[idx].link]_vars

(***************************************************************************)
(* C27.  Fallback on every fetch failure: whenever the direct request for  *)
(* a URL fails, by a network or transport error or by an empty response,   *)
(* fetchHTML attempts the fallback rendering fetch, scrapePage, before it  *)
(* reports empty content.                                                  *)
(***************************************************************************)
C27_FallbackOnEveryFailure ==
    (out # <<>> /\ (arg[2] = "throws" \/ EmptyBody(arg))) =>
        out[1].scrapePageCalls = 1

(***************************************************************************)
(* C28.  First-separator rule: for every date field that holds two or     *)
(* more '-' separators, getDate returns the text that precedes the first   *)
(* separator, trimmed, and never text that extends past the first          *)
(* separator.                                                              *)
(***************************************************************************)
\* the field as far as its first '-'
BeforeFirstHyphen(s) ==
    SubSeq(s, 1, (CHOOSE k \in Hyphens(s) : \A j \in Hyphens(s) : k <= j) - 1)

C28_FirstSeparatorRule ==
    (out # <<>> /\ Cardinality(Hyphens(arg)) >= 2) =>
        /\ \A k \in 1..Len(out[1]) : out[1][k] # "-"
        /\ out[1] = trim(RemoveSpaceRuns(BeforeFirstHyphen(arg)))

\* what getDate does return on a field of one line: the text before the
\* last separator
C28_LastSeparatorOfTheLine ==
    (out # <<>> /\ Hyphens(arg) # {} /\ \A k \in 1..Len(arg) : arg[k] # "\n") =>
        LET clean == RemoveSpaceRuns(arg)
            last == CHOOSE k \in Hyphens(clean) : \A j \in Hyphens(clean) : k >= j
        IN  out[1] = trim(SubSeq(clean, 1, last - 1))

(***************************************************************************)
(* C29.  At every point of a run the accumulator is the concatenation, in  *)
(* page order, of the page results persisted so far in that run, and the   *)
(* aggregate written at the end, like the value returned, is the           *)
(* concatenation of the page results of pages 1..k in page order: no entry *)
(* is dropped, reordered or removed as a duplicate.                        *)
(***************************************************************************)
C29_AccumulatorIsPagesInOrder ==
    /\ [](pc \in {"enter", "loading", "filtering", "processing"} =>
            /\ \A n \in 1..(page - 1) : n \in DOMAIN pageFile
            /\ acc = PagesUpTo(page - 1))
    /\ [](pc = "done" => returned = PagesUpTo(Cardinality(DOMAIN pageFile)))
    /\ [][allJson' # allJson =>
            /\ pc' = "done"
            /\ allJson' = <<PagesUpTo(Cardinality(DOMAIN pageFile))>>
            /\ returned' = PagesUpTo(Cardinality(DOMAIN pageFile))]_vars

\* two pages of one article each, the same headline twice: the aggregate
\* holds both, page 1 first
C29_Witness ==
    /\ pc = "done"
    /\ loaded = <<1, 2>>
    /\ DOMAIN pageFile = {1, 2}
    /\ Len(pageFile[1]) = 1
    /\ Len(pageFile[2]) = 1
    /\ pageFile[1][1].link = LinkOf("/e")
    /\ pageFile[2][1].link = LinkOf("/e")
    /\ returned = pageFile[1] \o pageFile[2]
    /\ allJson = <<returned>>

(***************************************************************************)
(* A second call of getArticlesRecursively in the same process, made when  *)
(* the first has resolved: `let done` (line 32) belongs to the module and  *)
(* keeps its value, the parameters take their values anew.  Here resumed   *)
(* marks the second call and firstRun keeps what the first call left.      *)
(***************************************************************************)
\* the mutated line 32: the flag is set back to false for each call
CallAgainFlagReset ==
    /\ pc = "done"
    /\ ~resumed
    /\ resumed' = TRUE
    /\ firstRun' = <<[returned |-> returned, allJson |-> allJson]>>
    /\ done' = FALSE
    /\ page' = 1
    /\ acc' = <<>>
    /\ html' = Empty
    /\ links' = <<>>
    /\ idx' = 1
    /\ articles' = <<>>
    /\ returned' = <<>>
    /\ loaded' = <<>>
    /\ detailFetches' = 0
    /\ extractorCalls' = 0
    /\ pc' = "enter"
    /\ UNCHANGED <<stop, sourceFile, pageFile, allJson, metaFile, htmlFile, arg, out,
                   fault, tasks>>

CallAgain ==
    /\ pc = "done"
    /\ ~resumed
    /\ resumed' = TRUE
    /\ firstRun' = <<[returned |-> returned, allJson |-> allJson]>>
    /\ page' = 1
    /\ acc' = <<>>
    /\ html' = Empty
    /\ links' = <<>>
    /\ idx' = 1
    /\ articles' = <<>>
    /\ returned' = <<>>
    /\ loaded' = <<>>
    /\ detailFetches' = 0
    /\ extractorCalls' = 0
    /\ pc' = "enter"
    /\ UNCHANGED <<done, stop, sourceFile, pageFile, allJson, metaFile, htmlFile,
                   arg, out, fault, tasks>>

SpecAgain == Init /\ [][RunStep \/ CallAgain]_vars

(***************************************************************************)
(* C30.  The flag done belongs to the process and only ever goes from      *)
(* false to true: once set it is not reset, so a second call of            *)
(* getArticlesRecursively in the same process, made after the flag was     *)
(* set, loads no listing page at all and overwrites all.json with its      *)
(* starting accumulator, which is empty.                                   *)
(***************************************************************************)
C30_DoneIsGlobalAndMonotone ==
    /\ [][done => done']_vars
    /\ [][(done /\ resumed' /\ ~resumed) =>
            (pc' = "enter" /\ loaded' = <<>> /\ acc' = <<>>)]_vars
    /\ [][(resumed /\ done /\ loaded = <<>>) =>
            /\ pc = "enter"
            /\ pc' = "done"
            /\ loaded' = <<>>
            /\ detailFetches' = 0
            /\ allJson' = << <<>> >>
            /\ returned' = <<>>]_vars

\* the first call stopped on a past-cutoff summary and left an aggregate of
\* one article; the second call has replaced it by the empty one
C30_Witness ==
    /\ resumed
    /\ done
    /\ pc = "done"
    /\ loaded = <<>>
    /\ firstRun # <<>>
    /\ Len(firstRun[1].returned) = 1
    /\ firstRun[1].allJson = <<firstRun[1].returned>>
    /\ allJson = << <<>> >>
    /\ returned = <<>>

(***************************************************************************)
(* C31.  The page result getArticles (the variant with the keyword test)   *)
(* returns holds exactly one entry for each input summary whose headline   *)
(* matches a keyword, and no entry, in particular no null in its place,    *)
(* for a summary whose headline matches none.                              *)
(***************************************************************************)
C31_OneEntryPerKeywordSummary ==
    pc = "mapped" =>
        /\ \A k \in 1..Len(articles) : articles[k][1] # "null"
        /\ Len(articles) = Len(KeywordLinks(links, Len(links)))
        /\ \A k \in 1..Len(articles) :
              (k <= Len(KeywordLinks(links, Len(links))) /\ articles[k][1] # "null") =>
                  articles[k][2].link = KeywordLinks(links, Len(links))[k].link

\* what is returned: one element for each input summary, in order, the
\* entry of the summary if its headline has a keyword and null if not
C31_NullForSummaryWithoutKeyword ==
    pc = "mapped" =>
        /\ Len(articles) = Len(links)
        /\ \A k \in 1..Len(links) :
              IF WithKeyword(links[k])
              THEN /\ articles[k][1] = "entry"
                   /\ articles[k][2].link = links[k].link
                   /\ articles[k][2].headline = links[k].headline
              ELSE articles[k] = Null

(***************************************************************************)
(* grab of src/unnamed/part_001 (lines 58-120), the filter that works on   *)
(* the page a browser rendered, with the getDate of that file (lines       *)
(* 34-41), which also deletes the commas.                                  *)
(***************************************************************************)
\* dateString.replace(/\s{2,}|,/g, ''): from left to right, a run of two or
\* more whitespace characters is deleted, and so is a comma
RECURSIVE RemoveSpaceRunsAndCommasFrom(_, _)
RemoveSpaceRunsAndCommasFrom(s, i) ==
    IF i > Len(s) THEN <<>>
    ELSE IF IsSpace(s[i]) /\ RunEnd(s, i) > i
         THEN RemoveSpaceRunsAndCommasFrom(s, RunEnd(s, i) + 1)
         ELSE IF s[i] = ","
         THEN RemoveSpaceRunsAndCommasFrom(s, i + 1)
         ELSE <<s[i]>> \o RemoveSpaceRunsAndCommasFrom(s, i + 1)

grabGetDate(dateString) ==
    LET clean == RemoveSpaceRunsAndCommasFrom(dateString, 1)
        dateMatch == FirstLineExec(clean)
    IN  IF dateMatch.matched THEN trim(dateMatch.text) ELSE <<>>

\* lines 108-112: [month, day, year] = date.split(' '), parseInt(year) and
\* months.indexOf(month) > 8; a year that is no number gives NaN, and every
\* comparison with NaN is false
grabKeeps(date) ==
    LET parts == split(date)
    IN  /\ Len(parts) >= 3
        /\ Len(parts[3]) = 1
        /\ IsNumeral(parts[3][1])
        /\ \/ ToNumber(parts[3][1]) > 2023
           \/ /\ ToNumber(parts[3][1]) = 2023
              /\ Len(parts[1]) = 1
              /\ \E m \in 1..12 : months[m] = parts[1][1] /\ m - 1 > 8

\* lines 105-116: the reduce over the payloads of the page
RECURSIVE grabReduce(_, _)
grabReduce(entries, i) ==
    IF i > Len(entries) THEN <<>>
    ELSE IF grabKeeps(grabGetDate(DateSpanText(entries[i].dateSpan)))
         THEN <<[link |-> LinkOf(entries[i].href),
                 headline |-> entries[i].headline,
                 date |-> grabGetDate(DateSpanText(entries[i].dateSpan))]>>
              \o grabReduce(entries, i + 1)
         ELSE grabReduce(entries, i + 1)

\* grab on the page that getDciLinksFromLanding is given
CallGrab ==
    /\ pc \in {"filtering", "processing"}
    /\ out = <<>>
    /\ out' = <<grabReduce(Entries(html), 1)>>
    /\ UNCHANGED <<runVars, arg>>

SpecGrab == InitFilter /\ [][LandingCall \/ Filter \/ CallGrab]_vars

(***************************************************************************)
(* C32.  The two date filters agree: of the summaries of a listing page    *)
(* with well-formed dates, grab retains exactly those that                 *)
(* getDciLinksFromLanding retains, the summaries published strictly after  *)
(* October 1, 2023.                                                        *)
(***************************************************************************)
C32_DateFiltersAgree ==
    (pc = "processing" /\ out # <<>>) =>
        /\ [k \in 1..Len(out[1]) |-> out[1][k].link] =
               [k \in 1..Len(links) |-> links[k].link]
        /\ [k \in 1..Len(out[1]) |-> out[1][k].link] =
               [k \in 1..Len(KeptAfterCutoff(Entries(html))) |->
                   KeptAfterCutoff(Entries(html))[k].link]

\* the summaries grab retains: those of 2024 and later, and those of
\* October, November and December 2023, the first of October included
RECURSIVE KeptFromOctober(_)
KeptFromOctober(entries) ==
    IF entries = <<>> THEN <<>>
    ELSE IF \/ ToNumber(Head(entries).dateSpan[3]) > 2023
            \/ /\ ToNumber(Head(entries).dateSpan[3]) = 2023
               /\ MonthNumber(Head(entries).dateSpan[1]) >= 10
         THEN <<LinkOf(Head(entries).href)>> \o KeptFromOctober(Tail(entries))
         ELSE KeptFromOctober(Tail(entries))

C32_GrabKeepsFromOctober ==
    (pc = "processing" /\ out # <<>>) =>
        [k \in 1..Len(out[1]) |-> out[1][k].link] = KeptFromOctober(Entries(html))

====
